---------------------------- MODULE Spec2Model ----------------------------
(* Harmonisation and caching core of PVLib_data_generator_GUI:            *)
(*   core/mapping.py   guess_column, infer_units, convert_to_canonical    *)
(*   core/cache.py     _hash_key, cache_path, get/set_cached_df           *)
(*   core/adapters.py  fetch_pvgis_hourly, fetch_pvgis_tmy,               *)
(*                     fetch_nasa_power_hourly, read_epw, read_csv        *)
(*   core/timeutils.py ensure_tz_aware, tz_name_from_latlon               *)
(*   core/irradiance.py derive_from_ghi                                   *)
(*   core/model.py     run_pvwatts, the check of the required columns     *)
(*   main.py           Steps 1 to 4 of the wizard                         *)
(*                                                                        *)
(* Numbers: a float of the program is an integer count of thousandths     *)
(* (98.4 is 98400); NaN is the integer NaN. Column names are strings;     *)
(* Chars gives the characters of each name the model uses.                *)
EXTENDS Integers, Sequences, FiniteSets, TLC

VARIABLES
  cin,      \* SpecCanon: the dataset handed to convert_to_canonical
  cstage,   \* SpecCanon: "input" | "once" | "twice"
  cout1,    \* SpecCanon: result of convert_to_canonical(cin)
  cout2,    \* SpecCanon: result of convert_to_canonical(cout1.df)
  files,    \* the cache directory: path of each existing file -> its content (a sequence of chunks)
  last,     \* the last adapter / cache call of this process and what it returned
  history,  \* history: per key, what the calls so far wrote and returned
  procs,    \* SpecConc: the concurrent callers of the cache
  session   \* st.session_state of the wizard and the message of its last run

vars == <<cin, cstage, cout1, cout2, files, last, history, procs, session>>

canonVars == <<cin, cstage, cout1, cout2>>

-----------------------------------------------------------------------------
(* Representation *)

\* one unit of the program's floats, in thousandths
Milli == 1000

\* a null cell (NaN / None) of a column
NaN == -1

\* index.freq absent (df.index.freqstr is None)
NoFreq == 0

\* rows of a dataset: 1..MaxRows
MaxRows == 2

Min(a, b) == IF a < b THEN a ELSE b

RECURSIVE SumSeq(_)
\* the sum of a sequence, by halves
SumSeq(s) ==
  IF s = <<>> THEN 0
  ELSE IF Len(s) = 1 THEN s[1]
  ELSE LET h == Len(s) \div 2
       IN SumSeq(SubSeq(s, 1, h)) + SumSeq(SubSeq(s, h + 1, Len(s)))

RECURSIVE SeqsOf(_, _)
\* all sequences of length n over S
SeqsOf(S, n) ==
  IF n = 0 THEN {<<>>}
  ELSE {Append(s, x) : s \in SeqsOf(S, n - 1), x \in S}

Range(s) == {s[i] : i \in DOMAIN s}

-----------------------------------------------------------------------------
(* Characters of names *)

UpperChars == <<"A","B","C","D","E","F","G","H","I","J","K","L","M",
                "N","O","P","Q","R","S","T","U","V","W","X","Y","Z">>
LowerChars == <<"a","b","c","d","e","f","g","h","i","j","k","l","m",
                "n","o","p","q","r","s","t","u","v","w","x","y","z">>
DigitChars == {"0","1","2","3","4","5","6","7","8","9"}

\* str.lower() on one character
LowerChar(c) ==
  IF \E i \in DOMAIN UpperChars : UpperChars[i] = c
  THEN LowerChars[CHOOSE i \in DOMAIN UpperChars : UpperChars[i] = c]
  ELSE c

\* str.lower()
Lower(s) == [i \in DOMAIN s |-> LowerChar(s[i])]

\* re.sub(r"[^a-z0-9]", "", name.lower())
RECURSIVE StripNonAlnum(_)
StripNonAlnum(s) ==
  IF s = <<>> THEN <<>>
  ELSE IF Head(s) \in Range(LowerChars) \cup DigitChars
       THEN <<Head(s)>> \o StripNonAlnum(Tail(s))
       ELSE StripNonAlnum(Tail(s))

Normalize(s) == StripNonAlnum(Lower(s))

\* n.startswith(c)
StartsWith(n, c) == Len(c) <= Len(n) /\ SubSeq(n, 1, Len(c)) = c

\* c in n
Contains(n, c) ==
  \E i \in 1..(Len(n) - Len(c) + 1) : SubSeq(n, i, i + Len(c) - 1) = c

\* the column names of the model
ColumnNames ==
  {"pressure", "ps", "pres", "sp", "PS", "SP", "Surface_Pressure",
   "ghi", "dni", "dhi", "global", "direct", "diffuse", "Global_Horizontal_Irr",
   "G(h)", "Gb(n)", "Gd(h)", "T2m", "WS10m", "temp_air", "wind_speed",
   "albedo", "randomXYZ", "Date", "Timestamp"}

\* the characters of each column name
Chars(name) ==
  CASE name = "pressure" -> <<"p","r","e","s","s","u","r","e">>
    [] name = "ps" -> <<"p","s">>
    [] name = "pres" -> <<"p","r","e","s">>
    [] name = "sp" -> <<"s","p">>
    [] name = "PS" -> <<"P","S">>
    [] name = "SP" -> <<"S","P">>
    [] name = "Surface_Pressure" ->
         <<"S","u","r","f","a","c","e","_","P","r","e","s","s","u","r","e">>
    [] name = "ghi" -> <<"g","h","i">>
    [] name = "dni" -> <<"d","n","i">>
    [] name = "dhi" -> <<"d","h","i">>
    [] name = "global" -> <<"g","l","o","b","a","l">>
    [] name = "direct" -> <<"d","i","r","e","c","t">>
    [] name = "diffuse" -> <<"d","i","f","f","u","s","e">>
    [] name = "Global_Horizontal_Irr" ->
         <<"G","l","o","b","a","l","_","H","o","r","i","z","o","n","t","a","l",
           "_","I","r","r">>
    [] name = "G(h)" -> <<"G","(","h",")">>
    [] name = "Gb(n)" -> <<"G","b","(","n",")">>
    [] name = "Gd(h)" -> <<"G","d","(","h",")">>
    [] name = "T2m" -> <<"T","2","m">>
    [] name = "WS10m" -> <<"W","S","1","0","m">>
    [] name = "temp_air" -> <<"t","e","m","p","_","a","i","r">>
    [] name = "wind_speed" -> <<"w","i","n","d","_","s","p","e","e","d">>
    [] name = "albedo" -> <<"a","l","b","e","d","o">>
    [] name = "randomXYZ" -> <<"r","a","n","d","o","m","X","Y","Z">>
    [] name = "Date" -> <<"D","a","t","e">>
    [] name = "Timestamp" -> <<"T","i","m","e","s","t","a","m","p">>

-----------------------------------------------------------------------------
(* core/mapping.py *)

NoField == "none"

FUZZY == <<
   [field |-> "ghi",
    candidates |-> << <<"g","h","i">>,
                      <<"g","l","o","b","a","l">>,
                      <<"g","l","o","b","a","l","h","o","r">>,
                      <<"i","_","g","h">>,
                      <<"a","l","l","s","k","y","_","s","f","c","_","s","w","_","d","w","n">>,
                      <<"g">> >>],
   [field |-> "dni",
    candidates |-> << <<"d","n","i">>,
                      <<"d","i","r","e","c","t">>,
                      <<"b","e","a","m">>,
                      <<"a","l","l","s","k","y","_","s","f","c","_","s","w","_","d","n","i">> >>],
   [field |-> "dhi",
    candidates |-> << <<"d","h","i">>,
                      <<"d","i","f","f","u","s","e">>,
                      <<"a","l","l","s","k","y","_","s","f","c","_","s","w","_","d","i","f","f">> >>],
   [field |-> "temp_air",
    candidates |-> << <<"t","e","m","p">>,
                      <<"t","2","m">>,
                      <<"t","a">>,
                      <<"t","e","m","p","_","a","i","r">>,
                      <<"t","e","m","p","e","r","a","t","u","r","e">> >>],
   [field |-> "wind_speed",
    candidates |-> << <<"w","i","n","d">>,
                      <<"w","s","2","m">>,
                      <<"w","s","p","d">>,
                      <<"w","i","n","d","_","s","p","e","e","d">> >>],
   [field |-> "pressure",
    candidates |-> << <<"p","r","e","s","s","u","r","e">>,
                      <<"p","r","e","s","s">>,
                      <<"p","s">>,
                      <<"p","r","e","s">>,
                      <<"s","p">> >>],
   [field |-> "albedo",
    candidates |-> << <<"a","l","b","e","d","o">>,
                      <<"r","h","o">> >>] >>

\* any(n.startswith(c) or c in n for c in candidates)
Matches(n, candidates) ==
  \E j \in DOMAIN candidates :
    StartsWith(n, candidates[j]) \/ Contains(n, candidates[j])

\* the last field of FUZZY, in its order, with a candidate that matches
guess_column_last(name) ==
  LET n == Normalize(Chars(name))
      hits == {i \in DOMAIN FUZZY : Matches(n, FUZZY[i].candidates)}
  IN IF hits = {} THEN NoField
     ELSE FUZZY[CHOOSE i \in hits : \A k \in hits : k <= i].field

\* the first field of FUZZY, in its order, with a candidate that matches
guess_column(name) ==
  LET n == Normalize(Chars(name))
      hits == {i \in DOMAIN FUZZY : Matches(n, FUZZY[i].candidates)}
  IN IF hits = {} THEN NoField
     ELSE FUZZY[CHOOSE i \in hits : \A k \in hits : i <= k].field

\* guess_column on every column name of the model, computed once
GuessOf == [name \in ColumnNames |-> guess_column(name)]

(* infer_units *)

SamplePrefix == 500
KPaLow == 70
KPaHigh == 110
HPaLow == 700
HPaHigh == 1100
EnergyBelow == 5

\* series.dropna()
DropNa(s) == SelectSeq(s, LAMBDA x : x # NaN)

\* the whole series, whatever its length
Sample_all(v) == v

\* v.iloc[: min(500, len(v))]
Sample(v) == SubSeq(v, 1, Min(SamplePrefix, Len(v)))

\* lo < mean(sample) < hi, the mean being SumSeq / Len, in thousandths
MeanAbove(sample, lo) == SumSeq(sample) > lo * Milli * Len(sample)
MeanBelow(sample, hi) == SumSeq(sample) < hi * Milli * Len(sample)

NoUnits == "None"

infer_units(series_name, series, freq_seconds) ==
  LET v == DropNa(series)
      sample == Sample(v)
  IN IF v = <<>> THEN NoUnits
     ELSE IF series_name \in {"pressure", "ps", "pres", "sp"}
          THEN IF MeanAbove(sample, KPaLow) /\ MeanBelow(sample, KPaHigh) THEN "kPa"
               ELSE IF MeanAbove(sample, HPaLow) /\ MeanBelow(sample, HPaHigh) THEN "hPa"
               ELSE "Pa"
     ELSE IF series_name \in {"ghi", "dni", "dhi", "global", "direct", "diffuse"}
          THEN IF MeanBelow(sample, EnergyBelow) /\ freq_seconds # 0 THEN "kWh/m^2"
               ELSE "W/m^2"
     ELSE NoUnits

\* s.astype(float) * k, NaN staying NaN
Scale(s, k) == [i \in DOMAIN s |-> IF s[i] = NaN THEN NaN ELSE s[i] * k]

KiloFactor == 1000
HectoFactor == 100
HourSeconds == 3600

\* factor = 1000, whatever the interval
energy_to_power_hourly(s, freq_seconds) == Scale(s, KiloFactor)

\* factor = 1000 * (3600 / freq_seconds); the model's intervals divide 3600000
energy_to_power_kwhm2_to_wm2(s, freq_seconds) ==
  Scale(s, (KiloFactor * HourSeconds) \div freq_seconds)


(* Datasets: [cols |-> <<[name, vals], ...>>, idx |-> timestamps in seconds,    *)
(*            tz |-> zone of the index, freq |-> index.freq in seconds or NoFreq] *)

Names(df) == {df.cols[i].name : i \in DOMAIN df.cols}

DistinctNames(df) ==
  \A i, j \in DOMAIN df.cols : df.cols[i].name = df.cols[j].name => i = j

\* a timestamp that is missing (pd.NaT)
NaT == -1

\* df.index.to_series().diff().dropna().dt.total_seconds(): a difference
\* with NaT on either side is NaT and is dropped
RECURSIVE Diffs(_)
Diffs(idx) ==
  IF Len(idx) < 2 THEN <<>>
  ELSE IF idx[1] = NaT \/ idx[2] = NaT THEN Diffs(Tail(idx))
       ELSE <<idx[2] - idx[1]>> \o Diffs(Tail(idx))

RECURSIVE InsertSorted(_, _)
InsertSorted(x, s) ==
  IF s = <<>> THEN <<x>>
  ELSE IF x <= Head(s) THEN <<x>> \o s
       ELSE <<Head(s)>> \o InsertSorted(x, Tail(s))

RECURSIVE SortAsc(_)
SortAsc(s) == IF s = <<>> THEN <<>> ELSE InsertSorted(Head(s), SortAsc(Tail(s)))

\* int(diffs.median()): the middle value, or the mean of the two middle
\* values, truncated
MedianInt(d) ==
  LET s == SortAsc(d)
      n == Len(s)
  IN IF n % 2 = 1 THEN s[(n + 1) \div 2]
     ELSE (s[n \div 2] + s[n \div 2 + 1]) \div 2

DefaultFreqSeconds == 3600

\* convert_to_canonical, "detect freq"
DetectFreq(df) ==
  IF df.freq # NoFreq THEN df.freq
  ELSE IF Diffs(df.idx) = <<>> THEN DefaultFreqSeconds
       ELSE MedianInt(Diffs(df.idx))

\* conversions[col] = (unit_from, unit_to) on an insertion-ordered dict
DictPut(conv, col, from, to) ==
  LET rec == [col |-> col, from |-> from, to |-> to]
  IN IF \E k \in DOMAIN conv : conv[k].col = col
     THEN [k \in DOMAIN conv |-> IF conv[k].col = col THEN rec ELSE conv[k]]
     ELSE Append(conv, rec)

\* low in ["pressure", "ps", "pres", "sp"]
IsPressureName(name) ==
  Lower(Chars(name)) \in {Chars("pressure"), Chars("ps"), Chars("pres"), Chars("sp")}

\* IsPressureName on every column name of the model, computed once
PressureNamed == {name \in ColumnNames : IsPressureName(name)}

\* the "pressure" loop of convert_to_canonical, from column i on
RECURSIVE PressureLoop(_, _, _)
PressureLoop(cols, conv, i) ==
  IF i > Len(cols) THEN [cols |-> cols, conv |-> conv]
  ELSE LET col == cols[i]
           units == infer_units("pressure", col.vals, 0)
       IN IF col.name \notin PressureNamed THEN PressureLoop(cols, conv, i + 1)
          ELSE IF units = "kPa"
               THEN PressureLoop(
                      [cols EXCEPT ![i].vals = Scale(col.vals, KiloFactor)],
                      DictPut(conv, col.name, "kPa", "Pa"), i + 1)
          ELSE IF units = "hPa"
               THEN PressureLoop(
                      [cols EXCEPT ![i].vals = Scale(col.vals, HectoFactor)],
                      DictPut(conv, col.name, "hPa", "Pa"), i + 1)
          ELSE PressureLoop(cols, DictPut(conv, col.name, "Pa", "Pa"), i + 1)

IrradianceFields == <<"ghi", "dni", "dhi">>

\* the "irradiance" loops of convert_to_canonical: field q, from column i on
RECURSIVE IrradianceLoop(_, _, _, _, _)
IrradianceLoop(cols, conv, q, i, freq_seconds) ==
  IF q > Len(IrradianceFields) THEN [cols |-> cols, conv |-> conv]
  ELSE IF i > Len(cols) THEN IrradianceLoop(cols, conv, q + 1, 1, freq_seconds)
  ELSE LET col == cols[i]
           units == infer_units(IrradianceFields[q], col.vals, freq_seconds)
       IN IF GuessOf[col.name] # IrradianceFields[q]
          THEN IrradianceLoop(cols, conv, q, i + 1, freq_seconds)
          ELSE IF units = "kWh/m^2"
               THEN IrradianceLoop(
                      [cols EXCEPT ![i].vals =
                          energy_to_power_kwhm2_to_wm2(col.vals, freq_seconds)],
                      DictPut(conv, col.name, "kWh/m^2", "W/m^2"),
                      q, i + 1, freq_seconds)
          ELSE IF units = "W/m^2"
               THEN IrradianceLoop(cols, DictPut(conv, col.name, "W/m^2", "W/m^2"),
                                   q, i + 1, freq_seconds)
          ELSE IrradianceLoop(cols, conv, q, i + 1, freq_seconds)

\* "rename to canonical where possible": g and g not in df.columns, the
\* columns being those of the frame before df.rename
RenameTarget(name, columns) ==
  LET g == GuessOf[name]
  IN IF g # NoField /\ g \notin columns THEN g ELSE name

RenameColumns(cols) ==
  LET columns == {cols[i].name : i \in DOMAIN cols}
  IN [i \in DOMAIN cols |->
        [cols[i] EXCEPT !.name = RenameTarget(cols[i].name, columns)]]

convert_to_canonical(df) ==
  LET freq_seconds == DetectFreq(df)
      p == PressureLoop(df.cols, <<>>, 1)
      r == IrradianceLoop(p.cols, p.conv, 1, 1, freq_seconds)
  IN [df |-> [df EXCEPT !.cols = RenameColumns(r.cols)],
      conversions |-> r.conv]


-----------------------------------------------------------------------------
(* Inputs of convert_to_canonical *)

\* 98.4 kPa, 1013.25 hPa
PressureVals == {NaN, 98400, 1013250}
\* 0.001 and 0.42 kWh/m^2 per interval, 800 W/m^2
IrradVals == {NaN, 1, 420, 800000}
\* 20 degrees, 20 m/s
OtherVals == {NaN, 20000}

ValuesFor(name) ==
  IF GuessOf[name] = "pressure" THEN PressureVals
  ELSE IF GuessOf[name] \in Range(IrradianceFields) THEN IrradVals
  ELSE OtherVals

\* the column labels of the input frames, in column order
Layouts ==
  { <<"pressure">>, <<"PS">>, <<"Surface_Pressure">>,
    <<"ghi">>, <<"Global_Horizontal_Irr">>, <<"dni">>, <<"randomXYZ">>,
    <<"pressure", "PS">>,
    <<"Global_Horizontal_Irr", "G(h)">>,
    <<"Surface_Pressure", "PS">>,
    <<"pressure", "temp_air">>,
    <<"randomXYZ", "dhi">> }

RECURSIVE ColumnsOf(_, _)
ColumnsOf(layout, n) ==
  IF layout = <<>> THEN {<<>>}
  ELSE {<<[name |-> Head(layout), vals |-> v]>> \o rest :
          v \in SeqsOf(ValuesFor(Head(layout)), n),
          rest \in ColumnsOf(Tail(layout), n)}

\* seconds between consecutive rows: duplicates, 20 minutes, one hour
StepChoices == {0, 1200, 3600}

RECURSIVE Cumulate(_, _)
Cumulate(t, steps) ==
  IF steps = <<>> THEN <<t>>
  ELSE <<t>> \o Cumulate(t + Head(steps), Tail(steps))

\* sorted indexes of n rows, without and with a fixed frequency
IndexChoices(n) ==
  {[idx |-> Cumulate(0, steps), freq |-> NoFreq] : steps \in SeqsOf(StepChoices, n - 1)}
  \cup {[idx |-> Cumulate(0, [i \in 1..(n - 1) |-> st]), freq |-> st] :
          st \in StepChoices \ {0}}

\* df is a frame of 1..MaxRows rows with the columns of a layout
IsCanonInput(df) ==
  \E layout \in Layouts, n \in 1..MaxRows :
    \E c \in ColumnsOf(layout, n), ix \in IndexChoices(n) :
      df = [cols |-> c, idx |-> ix.idx, tz |-> "UTC", freq |-> ix.freq]

-----------------------------------------------------------------------------
(* Idle values of the variables a specification does not use *)

NoDf == [cols |-> <<>>, idx |-> <<>>, tz |-> "UTC", freq |-> NoFreq]
NoResult == [df |-> NoDf, conversions |-> <<>>]

CanonIdle ==
  /\ cin = NoDf
  /\ cstage = "idle"
  /\ cout1 = NoResult
  /\ cout2 = NoResult

-----------------------------------------------------------------------------
(* SpecCanon: convert_to_canonical applied once and twice to every input *)

Canonicalize ==
  /\ cstage = "input"
  /\ cout1' = convert_to_canonical(cin)
  /\ cstage' = "once"
  /\ UNCHANGED <<cin, cout2, files, last, history, procs, session>>

\* the second pass; df[col] of a duplicated label is a frame, not a series,
\* so the pass is taken on frames with distinct labels
Recanonicalize ==
  /\ cstage = "once"
  /\ DistinctNames(cout1.df)
  /\ cout2' = convert_to_canonical(cout1.df)
  /\ cstage' = "twice"
  /\ UNCHANGED <<cin, cout1, files, last, history, procs, session>>


-----------------------------------------------------------------------------
(* core/timeutils.py *)

\* idx.tz_localize("UTC") when idx.tz is None, then idx.tz_convert(tz_name):
\* the instants stay, the zone they are expressed in changes
localize_index(df, tz_name) ==
  LET aware == IF df.tz = "naive" THEN [df EXCEPT !.tz = "UTC"] ELSE df
  IN [aware EXCEPT !.tz = tz_name]

ensure_tz_aware(df, tz_name) == localize_index(df, tz_name)

-----------------------------------------------------------------------------
(* core/cache.py *)

(* key_parts is a dict: the sequence of its <<key, value>> items in         *)
(* insertion order, the values already as the text f"{v}" gives.            *)

\* the order of str on the keys the program uses
KeyOrder == <<"end", "lat", "lon", "src", "start", "year">>

KeyRank(k) == CHOOSE i \in DOMAIN KeyOrder : KeyOrder[i] = k

RECURSIVE InsertItem(_, _)
InsertItem(x, s) ==
  IF s = <<>> THEN <<x>>
  ELSE IF KeyRank(x[1]) <= KeyRank(Head(s)[1]) THEN <<x>> \o s
       ELSE <<Head(s)>> \o InsertItem(x, Tail(s))

\* sorted(key_parts.items())
RECURSIVE SortedItems(_)
SortedItems(items) ==
  IF items = <<>> THEN <<>>
  ELSE InsertItem(Head(items), SortedItems(Tail(items)))

\* "|".join(f"{k}={v}" for k, v in items)
RECURSIVE JoinItems(_)
JoinItems(items) ==
  IF items = <<>> THEN <<>>
  ELSE IF Len(items) = 1 THEN <<Head(items)[1], "=", Head(items)[2]>>
  ELSE <<Head(items)[1], "=", Head(items)[2], "|">> \o JoinItems(Tail(items))

\* hashlib.sha256(s.encode()).hexdigest()[:16], taken as free of collisions:
\* the digest stands for the text it was computed from
Sha256Hex16(s) == [sha256 |-> s]

\* _hash_key that joins the items in the order of the dict
_hash_key_unsorted(key_parts) == Sha256Hex16(JoinItems(key_parts))

_hash_key(key_parts) == Sha256Hex16(JoinItems(SortedItems(key_parts)))

\* cache_path that leaves the prefix out of the file name
cache_path_no_prefix(prefix, key_parts) == [prefix |-> "", digest |-> _hash_key(key_parts)]

\* CACHE_ROOT / f"{prefix}-{_hash_key(key_parts)}.parquet"
cache_path(prefix, key_parts) == [prefix |-> prefix, digest |-> _hash_key(key_parts)]

\* chunks a parquet file is written in
ParquetChunks == 2

\* what a parquet file keeps of a frame: columns, index and its zone, not index.freq
Persisted(df) == [df EXCEPT !.freq = NoFreq]

\* the bytes df.to_parquet writes, chunk by chunk
ToParquet(df) == [i \in 1..ParquetChunks |-> [seq |-> i, data |-> Persisted(df)]]

\* a file that holds all the chunks of one frame
IsParquet(content) ==
  /\ Len(content) = ParquetChunks
  /\ \A i \in DOMAIN content :
       content[i].seq = i /\ content[i].data = content[1].data

NoneDf == [cols |-> <<>>, idx |-> <<>>, tz |-> "None", freq |-> NoFreq]
CorruptDf == [cols |-> <<>>, idx |-> <<>>, tz |-> "ArrowInvalid", freq |-> NoFreq]

\* pd.read_parquet(p): the frame, or an error on a file that is no parquet file
ReadParquet(content) == IF IsParquet(content) THEN content[1].data ELSE CorruptDf

get_cached_df(fs, prefix, key_parts) ==
  LET p == cache_path(prefix, key_parts)
  IN IF p \in DOMAIN fs THEN ReadParquet(fs[p]) ELSE NoneDf

\* the cache directory after df.to_parquet(p, index=True) has completed
WriteFile(fs, p, content) ==
  [q \in DOMAIN fs \cup {p} |-> IF q = p THEN content ELSE fs[q]]

\* set_cached_df that builds the path and writes nothing
set_cached_df_unwritten(fs, prefix, key_parts, df) == fs

set_cached_df(fs, prefix, key_parts, df) ==
  WriteFile(fs, cache_path(prefix, key_parts), ToParquet(df))


-----------------------------------------------------------------------------
(* core/adapters.py *)

SourceMeta(name, details, conversions, derived) ==
  [name |-> name, details |-> details, conversions |-> conversions,
   derived |-> derived]

NoMeta == [name |-> "None"]

\* df.rename(columns={...}) of _normalize_pvgis
PvgisRename(name) ==
  CASE name = "G(h)" -> "ghi"
    [] name = "Gb(n)" -> "dni"
    [] name = "Gd(h)" -> "dhi"
    [] name = "T2m" -> "temp_air"
    [] name = "WS10m" -> "wind_speed"
    [] name = "SP" -> "pressure"
    [] OTHER -> name

_normalize_pvgis(df) ==
  [df EXCEPT !.cols =
     [i \in DOMAIN df.cols |-> [df.cols[i] EXCEPT !.name = PvgisRename(df.cols[i].name)]]]

\* df.index = pd.to_datetime(df.index, utc=True)
ToDatetimeUtc(df) == [df EXCEPT !.tz = "UTC"]

\* what a call of an adapter gives: how it ended, the network requests it
\* made, the frame and the SourceMeta it returned, and the cache directory
\* it leaves
CallResult(outcome, net, df, meta, fs) ==
  [outcome |-> outcome, net |-> net, df |-> df, meta |-> meta, files |-> fs]

PvgisKey(lat, lon, year) ==
  << <<"src", "pvgis">>, <<"lat", lat>>, <<"lon", lon>>, <<"year", year>> >>

PvgisDerived == [dni |-> "measured", dhi |-> "measured"]

\* fetch_pvgis_hourly after the cache lookup missed: resp is what
\* iotools.get_pvgis_hourly does, an exception or (data, meta)
PvgisMiss(fs, key, tz_name, resp) ==
  IF resp.status = "error" THEN CallResult("error", 1, NoneDf, NoMeta, fs)
  ELSE LET c == convert_to_canonical(
                  ensure_tz_aware(ToDatetimeUtc(_normalize_pvgis(resp.data)), tz_name))
       IN CallResult("miss", 1, c.df,
                     SourceMeta("PVGIS", [meta |-> resp.meta], c.conversions, PvgisDerived),
                     set_cached_df(fs, "pvgis", key, c.df))

fetch_pvgis_hourly(fs, lat, lon, year, tz_name, resp) ==
  LET key == PvgisKey(lat, lon, year)
      cached == get_cached_df(fs, "pvgis", key)
  IN IF cached = CorruptDf THEN CallResult("error", 0, NoneDf, NoMeta, fs)
     ELSE IF cached # NoneDf
     THEN LET c == convert_to_canonical(cached)
          IN CallResult("hit", 0, c.df,
                        SourceMeta("PVGIS", [year |-> year], c.conversions, PvgisDerived),
                        fs)
     ELSE PvgisMiss(fs, key, tz_name, resp)

\* start.strftime("%Y%m%d"): the day of a timestamp
Strftime(ts) == ts.date

NasaKey(lat, lon, start_s, end_s) ==
  << <<"src", "nasa_power">>, <<"lat", lat>>, <<"lon", lon>>,
     <<"start", start_s>>, <<"end", end_s>> >>

NasaUrl(lat, lon, start_s, end_s) ==
  [longitude |-> lon, latitude |-> lat, start |-> start_s, end |-> end_s]

NasaDerived == [dni |-> "derived", dhi |-> "derived"]

\* series_for(k) as a column of the frame built from the four series: a
\* parameter the response lacks is a column of NaN
SeriesFor(resp, k) ==
  IF resp.base[k] = <<>> THEN [i \in DOMAIN resp.idx |-> NaN] ELSE resp.base[k]

\* .dropna(how="all"): the rows that have a value in some column
RECURSIVE KeepRows(_, _)
KeepRows(s, keep) ==
  IF s = <<>> THEN <<>>
  ELSE (IF Head(keep) THEN <<Head(s)>> ELSE <<>>) \o KeepRows(Tail(s), Tail(keep))

DropNaAll(df) ==
  LET keep == [r \in DOMAIN df.idx |-> \E i \in DOMAIN df.cols : df.cols[i].vals[r] # NaN]
  IN [df EXCEPT !.idx = KeepRows(df.idx, keep),
                !.cols = [i \in DOMAIN df.cols |->
                            [df.cols[i] EXCEPT !.vals = KeepRows(df.cols[i].vals, keep)]]]

NasaFrame(resp) ==
  DropNaAll(
    [cols |-> << [name |-> "ghi", vals |-> SeriesFor(resp, "ALLSKY_SFC_SW_DWN")],
                 [name |-> "temp_air", vals |-> SeriesFor(resp, "T2M")],
                 [name |-> "wind_speed", vals |-> SeriesFor(resp, "WS2M")],
                 [name |-> "pressure", vals |-> SeriesFor(resp, "PS")] >>,
     idx |-> resp.idx, tz |-> "UTC", freq |-> NoFreq])

\* NasaMiss that persists an empty frame before r.raise_for_status()
NasaMiss_persist_first(fs, key, url, tz_name, resp) ==
  IF resp.status = "error"
  THEN CallResult("error", 1, NoneDf, NoMeta, set_cached_df(fs, "nasa", key, NoDf))
  ELSE LET c == convert_to_canonical(NasaFrame(resp))
           df == ensure_tz_aware(c.df, tz_name)
       IN CallResult("miss", 1, df,
                     SourceMeta("NASA POWER Hourly", [url |-> url], c.conversions,
                                NasaDerived),
                     set_cached_df(fs, "nasa", key, df))

\* fetch_nasa_power_hourly after the cache lookup missed: resp is what
\* requests.get and r.raise_for_status do, an exception or the JSON body
NasaMiss(fs, key, url, tz_name, resp) ==
  IF resp.status = "error" THEN CallResult("error", 1, NoneDf, NoMeta, fs)
  ELSE LET c == convert_to_canonical(NasaFrame(resp))
           df == ensure_tz_aware(c.df, tz_name)
       IN CallResult("miss", 1, df,
                     SourceMeta("NASA POWER Hourly", [url |-> url], c.conversions,
                                NasaDerived),
                     set_cached_df(fs, "nasa", key, df))

fetch_nasa_power_hourly(fs, lat, lon, start, end, tz_name, resp) ==
  LET start_s == Strftime(start)
      end_s == Strftime(end)
      url == NasaUrl(lat, lon, start_s, end_s)
      key == NasaKey(lat, lon, start_s, end_s)
      cached == get_cached_df(fs, "nasa", key)
  IN IF cached = CorruptDf THEN CallResult("error", 0, NoneDf, NoMeta, fs)
     ELSE IF cached # NoneDf
     THEN LET c == convert_to_canonical(cached)
          IN CallResult("hit", 0, c.df,
                        SourceMeta("NASA POWER Hourly", [url |-> url], c.conversions,
                                   NasaDerived),
                        fs)
     ELSE NasaMiss(fs, key, url, tz_name, resp)


-----------------------------------------------------------------------------
(* The callers' parameters and the upstream services *)

Lats == {"52.52"}
Lons == {"13.405"}
Years == {"2019", "2020"}
Zones == {"UTC", "Europe/Berlin"}

\* (start, end) of a NASA POWER request
Periods ==
  { <<[date |-> "20190101", time |-> "00:00"], [date |-> "20191231", time |-> "23:00"]>>,
    <<[date |-> "20200101", time |-> "00:00"], [date |-> "20201231", time |-> "23:00"]>> }

HourlyIdx == <<0, 3600>>

Failure == [status |-> "error"]

\* responses of the PVGIS service: daylight (800 W/m^2) and polar night
\* (0.001 W/m^2), pressure in pascal
PvgisResponses ==
  { Failure } \cup
  { [status |-> "ok", meta |-> "pvgis-meta",
     data |-> [cols |-> << [name |-> "G(h)", vals |-> <<g, g>>],
                           [name |-> "T2m", vals |-> <<20000, 20000>>],
                           [name |-> "SP", vals |-> <<101325000, 101325000>>] >>,
               idx |-> HourlyIdx, tz |-> "UTC", freq |-> NoFreq]] :
     g \in {800000, 1} }

\* responses of NASA POWER: pressure in kilopascal or missing, irradiance
\* 800 or 0.001 W/m^2
NasaResponses ==
  { Failure } \cup
  { [status |-> "ok", idx |-> HourlyIdx,
     base |-> [ALLSKY_SFC_SW_DWN |-> <<b.g, b.g>>, T2M |-> <<20000, 20000>>,
               WS2M |-> <<2000, 2000>>, PS |-> b.ps]] :
     b \in { [g |-> 800000, ps |-> <<98400, 98400>>],
             [g |-> 800000, ps |-> <<>>],
             [g |-> 1, ps |-> <<>>] } }

-----------------------------------------------------------------------------
(* Spec: the query adapters called one after the other by one process at a *)
(* time, the cache directory outliving the process                         *)

NoCall == [op |-> "none"]

EmptyDir == [p \in {} |-> <<>>]

CacheIdle ==
  /\ files = EmptyDir
  /\ last = NoCall
  /\ history = EmptyDir

ProcsIdle == procs = EmptyDir

\* a dict without keys
EmptyDict == [k \in {} |-> ""]

\* st.session_state["syscfg"] and ["ac_w"] before they are set
NoCfg == [layout |-> "None"]
NoRun == [weather |-> NoneDf]

\* st.session_state before any data was fetched, and no message shown; every
\* read of derived_methods is a .get(..., {}) or follows a setdefault, so the
\* missing key is the empty dict
NoSession ==
  [raw_weather |-> NoneDf, source_meta |-> NoMeta, derived_methods |-> EmptyDict,
   syscfg |-> NoCfg, ac_w |-> NoRun, poa |-> NoRun, kpis |-> NoRun,
   message |-> "none"]

SessionIdle == session = NoSession

\* the identifying parameters of a call
Ident(adapter, lat, lon, period) ==
  [adapter |-> adapter, lat |-> lat, lon |-> lon, period |-> period]

\* history of a key: the frame and SourceMeta of the last call that fetched it
Remember(h, id, r) ==
  IF r.outcome = "miss"
  THEN [k \in DOMAIN h \cup {id} |-> IF k = id THEN [df |-> r.df, meta |-> r.meta] ELSE h[k]]
  ELSE h

Called(op, id, tz_name, r) ==
  /\ files' = r.files
  /\ last' = [op |-> op, id |-> id, tz |-> tz_name, outcome |-> r.outcome,
              net |-> r.net, df |-> r.df, meta |-> r.meta]
  /\ history' = Remember(history, id, r)
  /\ UNCHANGED <<cin, cstage, cout1, cout2, procs, session>>

FetchPvgisHourly ==
  \E lat \in Lats, lon \in Lons, year \in Years, tz_name \in Zones,
     resp \in PvgisResponses :
    Called("pvgis", Ident("pvgis", lat, lon, <<year>>), tz_name,
           fetch_pvgis_hourly(files, lat, lon, year, tz_name, resp))

FetchNasaPowerHourly ==
  \E lat \in Lats, lon \in Lons, period \in Periods, tz_name \in Zones,
     resp \in NasaResponses :
    Called("nasa",
           Ident("nasa", lat, lon, <<Strftime(period[1]), Strftime(period[2])>>),
           tz_name,
           fetch_nasa_power_hourly(files, lat, lon, period[1], period[2], tz_name, resp))

\* the process ends and a new one starts: what was in memory is gone, the
\* files of CACHE_ROOT stay (mkdir(parents=True, exist_ok=True))
Restart ==
  /\ last # NoCall
  /\ last' = NoCall
  /\ UNCHANGED <<cin, cstage, cout1, cout2, files, history, procs, session>>

Init ==
  /\ CanonIdle
  /\ CacheIdle
  /\ ProcsIdle
  /\ SessionIdle

Next ==
  \/ FetchPvgisHourly
  \/ FetchNasaPowerHourly
  \/ Restart

Spec == Init /\ [][Next]_vars

InitCanon ==
  /\ IsCanonInput(cin)
  /\ cstage = "input"
  /\ cout1 = NoResult
  /\ cout2 = NoResult
  /\ CacheIdle
  /\ ProcsIdle
  /\ SessionIdle

NextCanon ==
  \/ Canonicalize
  \/ Recanonicalize

SpecCanon == InitCanon /\ [][NextCanon]_vars


-----------------------------------------------------------------------------
(* Properties of convert_to_canonical (SpecCanon) *)

Canonicalized == cstage \in {"once", "twice"}

\* the pressure bands of the mean of the sampled prefix
MeanIsKPa(vals) ==
  /\ DropNa(vals) # <<>>
  /\ MeanAbove(Sample(DropNa(vals)), KPaLow)
  /\ MeanBelow(Sample(DropNa(vals)), KPaHigh)

MeanIsHPa(vals) ==
  /\ DropNa(vals) # <<>>
  /\ MeanAbove(Sample(DropNa(vals)), HPaLow)
  /\ MeanBelow(Sample(DropNa(vals)), HPaHigh)

\* C1: after convert_to_canonical, every input column whose name resolves to
\* pressure through guess_column and that ends up under the name "pressure"
\* is in pascal: its values are the input times 1000 when the sampled mean
\* lies in (70,110), and times 100 when it lies in (700,1100).
C1_PressureColumnInPascal ==
  Canonicalized =>
    \A i \in DOMAIN cin.cols :
      (guess_column(cin.cols[i].name) = "pressure" /\ cout1.df.cols[i].name = "pressure")
      => /\ MeanIsKPa(cin.cols[i].vals)
            => cout1.df.cols[i].vals = Scale(cin.cols[i].vals, KiloFactor)
         /\ MeanIsHPa(cin.cols[i].vals)
            => cout1.df.cols[i].vals = Scale(cin.cols[i].vals, HectoFactor)

\* C2: convert_to_canonical is idempotent: the second pass changes no value
\* and no column name and emits no conversion record.
C2_Idempotent ==
  cstage = "twice" =>
    /\ cout2.df = cout1.df
    /\ cout2.conversions = <<>>

\* C3: each canonical field name is carried by at most one output column: of
\* the input columns that resolve to one field, only the first may be renamed
\* to it and every later one keeps its original name.
C3_OneColumnPerField ==
  Canonicalized =>
    /\ \A i, j \in DOMAIN cout1.df.cols :
         (cout1.df.cols[i].name = cout1.df.cols[j].name
          /\ cout1.df.cols[i].name \in {FUZZY[k].field : k \in DOMAIN FUZZY})
         => i = j
    /\ \A i, j \in DOMAIN cin.cols :
         (i < j /\ guess_column(cin.cols[i].name) # NoField
          /\ guess_column(cin.cols[i].name) = guess_column(cin.cols[j].name))
         => cout1.df.cols[j].name = cin.cols[j].name


-----------------------------------------------------------------------------
(* SpecCache: get_cached_df and set_cached_df called directly, with the   *)
(* items of key_parts in any order                                        *)

RECURSIVE Orderings(_)
\* the sequences that list every element of S once
Orderings(S) ==
  IF S = {} THEN {<<>>}
  ELSE UNION {{<<x>> \o rest : rest \in Orderings(S \ {x})} : x \in S}

Prefixes == {"pvgis", "nasa"}

\* the mappings used as key_parts, each as the set of its items
KeyMappings ==
  { {<<"src", "pvgis">>, <<"year", year>>} : year \in Years }

\* frames handed to set_cached_df
CacheFrames ==
  { [cols |-> << [name |-> "ghi", vals |-> <<800000, NaN>>] >>,
     idx |-> HourlyIdx, tz |-> "UTC", freq |-> 3600],
    [cols |-> << [name |-> "pressure", vals |-> <<101325000>>] >>,
     idx |-> <<0>>, tz |-> "Europe/Berlin", freq |-> NoFreq] }

CacheKey(prefix, key_parts) == [prefix |-> prefix, items |-> Range(key_parts)]

CachePut ==
  \E prefix \in Prefixes, m \in KeyMappings, df \in CacheFrames :
    \E key_parts \in Orderings(m) :
      LET k == CacheKey(prefix, key_parts)
      IN /\ files' = set_cached_df(files, prefix, key_parts, df)
         /\ last' = [op |-> "put", prefix |-> prefix, key_parts |-> key_parts,
                     path |-> cache_path(prefix, key_parts), df |-> df]
         /\ history' = [j \in DOMAIN history \cup {k} |->
                          IF j = k
                          THEN [df |-> df, path |-> cache_path(prefix, key_parts),
                                order |-> key_parts]
                          ELSE history[j]]
         /\ UNCHANGED <<cin, cstage, cout1, cout2, procs, session>>

CacheGet ==
  \E prefix \in Prefixes, m \in KeyMappings :
    \E key_parts \in Orderings(m) :
      /\ last' = [op |-> "get", prefix |-> prefix, key_parts |-> key_parts,
                  path |-> cache_path(prefix, key_parts),
                  df |-> get_cached_df(files, prefix, key_parts)]
      /\ UNCHANGED <<cin, cstage, cout1, cout2, files, history, procs, session>>

NextCache ==
  \/ CachePut
  \/ CacheGet
  \/ Restart

SpecCache == Init /\ [][NextCache]_vars


-----------------------------------------------------------------------------
(* Properties of the query adapters (Spec) *)

IsAdapterCall(call) == call.op \in {"pvgis", "nasa"}

ServedFromCache == IsAdapterCall(last) /\ last.outcome = "hit"

\* what equality of two frames compares: values, column names, index
SameData(a, b) == a.cols = b.cols /\ a.idx = b.idx /\ a.tz = b.tz

\* C4: once a call with given identifying parameters has returned a fetched
\* dataset, every later call with the same identifying parameters returns a
\* dataset from the cache and makes no network request, whatever calls with
\* other parameters happen in between.
C4_NoRefetchAfterSuccess ==
  [][(IsAdapterCall(last') /\ last'.id \in DOMAIN history)
       => (last'.outcome = "hit" /\ last'.net = 0 /\ last'.df # NoneDf)]_vars

\* a call served from the cache while another key was fetched as well
C4_Witness ==
  /\ ServedFromCache
  /\ last.net = 0
  /\ \E id \in DOMAIN history : id # last.id

\* C5: on a cache hit the adapter returns the cached dataset: equal in values,
\* column names and index to the dataset the earlier miss for the same key
\* persisted and returned.
C5_HitReturnsPersistedDataset ==
  ServedFromCache => SameData(last.df, history[last.id].df)

\* C6: the SourceMeta returned on a cache hit is marked as cache-derived: it
\* differs from the SourceMeta the call that fetched the same key from the
\* network returned.
C6_HitMetaMarkedCacheDerived ==
  ServedFromCache => last.meta # history[last.id].meta

\* C10: a call whose upstream request fails ends in an error after exactly one
\* network request and leaves every cache file as it was, the file of its key
\* still missing; the next call with the same parameters requests the network
\* again.
C10_FailureLeavesCacheAlone ==
  [][/\ ((IsAdapterCall(last') /\ last'.outcome = "error")
          => (/\ last'.net = 1
              /\ files' = files
              /\ last'.id \notin DOMAIN history'))
      /\ ((IsAdapterCall(last) /\ last.outcome = "error"
           /\ IsAdapterCall(last') /\ last'.id = last.id)
          => last'.net = 1)]_vars

\* a failed call, made while another key is cached
C10_Witness ==
  /\ IsAdapterCall(last)
  /\ last.outcome = "error"
  /\ last.net = 1
  /\ files # EmptyDir

-----------------------------------------------------------------------------
(* Properties of the cache (SpecCache) *)

IsCacheCall(call) == call.op \in {"get", "put"}

LastKey == CacheKey(last.prefix, last.key_parts)

\* C7: get_cached_df returns, for a prefix and key_parts, a frame equal in
\* values and index to the one last given to set_cached_df for them, after
\* any calls for other keys and across restarts; and no step removes a file
\* of the cache.
C7_RoundTripAndPersistence ==
  /\ [](IsCacheCall(last) /\ last.op = "get"
        => IF LastKey \in DOMAIN history
           THEN SameData(last.df, history[LastKey].df)
           ELSE last.df = NoneDf)
  /\ [][DOMAIN files \subseteq DOMAIN files']_vars

\* a get that returns what was put, with other keys stored as well
C7_Witness ==
  /\ IsCacheCall(last)
  /\ last.op = "get"
  /\ last.df \in {Persisted(f) : f \in CacheFrames}
  /\ last.df \notin CacheFrames
  /\ \E k \in DOMAIN history : k # LastKey /\ history[k].df # history[LastKey].df

\* C8: key_parts with the same items in different orders give the same digest
\* and address the same file of a prefix.
C8_KeyOrderIndependent ==
  (IsCacheCall(last) /\ LastKey \in DOMAIN history)
    => /\ last.path = history[LastKey].path
       /\ last.path.digest = _hash_key(history[LastKey].order)

\* a get that found the frame put under the same items in another order
C8_Witness ==
  /\ IsCacheCall(last)
  /\ last.op = "get"
  /\ LastKey \in DOMAIN history
  /\ last.key_parts # history[LastKey].order
  /\ last.df = Persisted(history[LastKey].df)


-----------------------------------------------------------------------------
(* SpecConc: callers of set_cached_df and get_cached_df racing on one key. *)
(* df.to_parquet(p) opens p for writing, which empties it, and writes the  *)
(* chunks one after the other at its own position in the file;            *)
(* get_cached_df tests p.exists() and then reads the file.                 *)

Writers == {"w1", "w2"}
Readers == {"r1"}

ConcPath == cache_path("pvgis", PvgisKey("52.52", "13.405", "2019"))

\* a chunk nobody wrote: the gap below the position of a write
ZeroChunk == [seq |-> 0, data |-> NoDf]

\* the file after a write of chunk c at position i
PutChunk(content, i, c) ==
  [j \in 1..(IF Len(content) > i THEN Len(content) ELSE i) |->
     IF j = i THEN c
     ELSE IF j <= Len(content) THEN content[j] ELSE ZeroChunk]

InitConc ==
  /\ CanonIdle
  /\ files = EmptyDir
  /\ last = NoCall
  /\ history = EmptyDir
  /\ SessionIdle
  /\ \E f \in [Writers -> CacheFrames] :
       procs = [p \in Writers \cup Readers |->
                  IF p \in Writers
                  THEN [pc |-> "start", df |-> f[p], off |-> 0]
                  ELSE [pc |-> "start", df |-> NoneDf, off |-> 0]]

ConcUnchanged == UNCHANGED <<cin, cstage, cout1, cout2, last, history, session>>

\* set_cached_df: to_parquet opens the file
WriterOpen(p) ==
  /\ procs[p].pc = "start"
  /\ files' = WriteFile(files, ConcPath, <<>>)
  /\ procs' = [procs EXCEPT ![p].pc = "writing"]
  /\ ConcUnchanged

\* set_cached_df: to_parquet writes its next chunk
WriterWrite(p) ==
  /\ procs[p].pc = "writing"
  /\ procs[p].off < ParquetChunks
  /\ files' = WriteFile(files, ConcPath,
                        PutChunk(files[ConcPath], procs[p].off + 1,
                                 ToParquet(procs[p].df)[procs[p].off + 1]))
  /\ procs' = [procs EXCEPT ![p].off = @ + 1]
  /\ ConcUnchanged

\* set_cached_df: to_parquet closes the file and the call returns
WriterClose(p) ==
  /\ procs[p].pc = "writing"
  /\ procs[p].off = ParquetChunks
  /\ procs' = [procs EXCEPT ![p].pc = "done"]
  /\ UNCHANGED files
  /\ ConcUnchanged

\* get_cached_df: p.exists()
ReaderExists(p) ==
  /\ procs[p].pc = "start"
  /\ procs' = IF ConcPath \in DOMAIN files
              THEN [procs EXCEPT ![p].pc = "exists"]
              ELSE [procs EXCEPT ![p].pc = "done", ![p].df = NoneDf]
  /\ UNCHANGED files
  /\ ConcUnchanged

\* get_cached_df: pd.read_parquet(p)
ReaderRead(p) ==
  /\ procs[p].pc = "exists"
  /\ procs' = [procs EXCEPT ![p].pc = "done", ![p].df = ReadParquet(files[ConcPath])]
  /\ UNCHANGED files
  /\ ConcUnchanged

\* the reader calls get_cached_df again
ReaderAgain(p) ==
  /\ procs[p].pc = "done"
  /\ procs' = [procs EXCEPT ![p].pc = "start", ![p].df = NoneDf]
  /\ UNCHANGED files
  /\ ConcUnchanged

NextConc ==
  \/ \E p \in Writers : WriterOpen(p)
  \/ \E p \in Writers : WriterWrite(p)
  \/ \E p \in Writers : WriterClose(p)
  \/ \E p \in Readers : ReaderExists(p)
  \/ \E p \in Readers : ReaderRead(p)
  \/ \E p \in Readers : ReaderAgain(p)

SpecConc == InitConc /\ [][NextConc]_vars

\* C9: cache writes are atomic file replacements: a reader racing with
\* writers of the same key obtains none or a complete dataset that a writer
\* put, never a partially written entry, and once all writers have finished
\* the entry is exactly one writer's complete dataset.
C9_WritesAreAtomicReplacements ==
  /\ \A r \in Readers :
       procs[r].pc = "done"
       => procs[r].df \in {NoneDf} \cup {Persisted(procs[w].df) : w \in Writers}
  /\ (\A w \in Writers : procs[w].pc = "done")
     => /\ IsParquet(files[ConcPath])
        /\ ReadParquet(files[ConcPath]) \in {Persisted(procs[w].df) : w \in Writers}

-----------------------------------------------------------------------------
(* SpecWizard: Step 1 of main.py, the "Fetch data" button with the sources *)
(* PVGIS Hourly and NASA POWER                                             *)

PVGIS_HOURLY_MIN_YEAR == 2005
PVGIS_HOURLY_MAX_YEAR == 2023

\* values of the "Year" widget: the bounds of PVGIS Hourly and one year past
WizardYears == {PVGIS_HOURLY_MIN_YEAR, PVGIS_HOURLY_MAX_YEAR, PVGIS_HOURLY_MAX_YEAR + 1}

\* timeutils.tz_name_from_latlon at the sites of the model
tz_name_from_latlon(lat, lon) ==
  IF lat = "52.52" /\ lon = "13.405" THEN "Europe/Berlin" ELSE "UTC"

\* the end of the try block: a fetched frame is stored, None is not;
\* setdefault("derived_methods", {}) keeps a value that is there
StoreFetched(r) ==
  IF r.df # NoneDf
  THEN [session EXCEPT !.raw_weather = r.df, !.source_meta = r.meta,
                       !.message = "success"]
  ELSE [session EXCEPT !.message = r.message]

\* the except clause: st.error("Fetch error: ...")
FetchFailed == [session EXCEPT !.message = "error: Fetch error"]

\* a press of "Fetch data" with the source ds and the year of the widget
Pressed(ds, year_val) == [op |-> "fetch_data", ds |-> ds, year |-> year_val]

\* the outcome of the adapter call r of "Fetch data"
AfterFetch(ds, year_val, r) ==
  /\ files' = r.files
  /\ session' = IF r.outcome = "error" THEN FetchFailed
                ELSE StoreFetched([df |-> r.df, meta |-> r.meta, message |-> "success"])
  /\ last' = Pressed(ds, year_val)
  /\ UNCHANGED <<cin, cstage, cout1, cout2, history, procs>>

\* "Fetch data" with ds == "PVGIS Hourly" and no test of the year
FetchDataPvgisHourly_unchecked ==
  \E lat \in Lats, lon \in Lons, year_val \in WizardYears, resp \in PvgisResponses :
    AfterFetch("PVGIS Hourly", year_val,
               fetch_pvgis_hourly(files, lat, lon, ToString(year_val),
                                  tz_name_from_latlon(lat, lon), resp))

\* ds == "PVGIS Hourly"
FetchDataPvgisHourly ==
  \E lat \in Lats, lon \in Lons, year_val \in WizardYears, resp \in PvgisResponses :
    IF year_val < PVGIS_HOURLY_MIN_YEAR \/ year_val > PVGIS_HOURLY_MAX_YEAR
    THEN /\ session' = StoreFetched([df |-> NoneDf, meta |-> NoMeta,
                                     message |-> "warning: outside PVGIS Hourly range"])
         /\ last' = Pressed("PVGIS Hourly", year_val)
         /\ UNCHANGED <<cin, cstage, cout1, cout2, files, history, procs>>
    ELSE AfterFetch("PVGIS Hourly", year_val,
                    fetch_pvgis_hourly(files, lat, lon, ToString(year_val),
                                       tz_name_from_latlon(lat, lon), resp))

\* ds == "NASA POWER"
FetchDataNasaPower ==
  \E lat \in Lats, lon \in Lons, year_val \in WizardYears, resp \in NasaResponses :
    LET start == [date |-> ToString(year_val) \o "0101", time |-> "00:00"]
        end == [date |-> ToString(year_val) \o "1231", time |-> "23:00"]
    IN AfterFetch("NASA POWER", year_val,
                  fetch_nasa_power_hourly(files, lat, lon, start, end,
                                          tz_name_from_latlon(lat, lon), resp))

NextWizard ==
  \/ FetchDataPvgisHourly
  \/ FetchDataNasaPower

SpecWizard == Init /\ [][NextWizard]_vars

\* a press of "Fetch data" for PVGIS Hourly with a year outside its range
OutOfRangeRequest(call) ==
  /\ call = Pressed("PVGIS Hourly", call.year)
  /\ (call.year < PVGIS_HOURLY_MIN_YEAR \/ call.year > PVGIS_HOURLY_MAX_YEAR)

\* C11: a PVGIS Hourly request for a year outside 2005-2023 ends in an
\* out-of-range outcome that is not the generic fetch failure, and leaves the
\* cache, the stored weather dataset and the stored source metadata as they
\* were.
C11_OutOfRangeYearLeavesStateAlone ==
  [][(last'.op = "fetch_data" /\ OutOfRangeRequest(last'))
       => /\ session'.message = "warning: outside PVGIS Hourly range"
          /\ session'.message # FetchFailed.message
          /\ files' = files
          /\ session'.raw_weather = session.raw_weather
          /\ session'.source_meta = session.source_meta]_vars

C11_Witness ==
  /\ last.op = "fetch_data" /\ OutOfRangeRequest(last)
  /\ session.raw_weather # NoneDf
  /\ files # EmptyDir

-----------------------------------------------------------------------------
(* The file adapters of core/adapters.py: read_epw and read_csv             *)

(* An uploaded file: [name, status, cols]; the cells of a column that holds *)
(* timestamps are instants in seconds, or Unparsable.                       *)

\* a cell pd.to_datetime cannot parse
Unparsable == -2

\* "time" in c.lower() or "date" in c.lower()
IsTimeName(name) ==
  \/ Contains(Lower(Chars(name)), <<"t","i","m","e">>)
  \/ Contains(Lower(Chars(name)), <<"d","a","t","e">>)

\* IsTimeName on every column name of the model, computed once
TimeNamed == {name \in ColumnNames : IsTimeName(name)}

\* read_csv: the last column c with a time name, 0 when there is none
LastTimeColumn(cols) ==
  LET hits == {i \in DOMAIN cols : cols[i].name \in TimeNamed}
  IN IF hits = {} THEN 0 ELSE CHOOSE i \in hits : \A k \in hits : k <= i

\* read_csv: the first column c with a time name (the loop breaks at it),
\* 0 when there is none (dtcol is None)
FirstTimeColumn(cols) ==
  LET hits == {i \in DOMAIN cols : cols[i].name \in TimeNamed}
  IN IF hits = {} THEN 0 ELSE CHOOSE i \in hits : \A k \in hits : i <= k

\* pd.to_datetime(df[dtcol], utc=True, errors="coerce")
ToDatetimeCoerce(cells) ==
  [i \in DOMAIN cells |-> IF cells[i] = Unparsable THEN NaT ELSE cells[i]]

\* the order of sort_index: ascending, NaT last
Before(a, b) == a # NaT /\ (b = NaT \/ a < b)

RECURSIVE InsertRow(_, _, _)
InsertRow(i, order, keys) ==
  IF order = <<>> THEN <<i>>
  ELSE IF Before(keys[i], keys[Head(order)]) THEN <<i>> \o order
       ELSE <<Head(order)>> \o InsertRow(i, Tail(order), keys)

RECURSIVE RowOrder(_, _)
\* the rows 1..n in the order of their keys, equal keys in their row order
RowOrder(keys, n) ==
  IF n = 0 THEN <<>> ELSE InsertRow(n, RowOrder(keys, n - 1), keys)

\* the columns but column t
DropColumn(cols, t) ==
  [i \in 1..(Len(cols) - 1) |-> IF i < t THEN cols[i] ELSE cols[i + 1]]

\* df.set_index(dtcol).sort_index(), the column t holding the datetimes
SetIndexSorted(cols, t) ==
  LET keys == cols[t].vals
      order == RowOrder(keys, Len(keys))
      rest == DropColumn(cols, t)
  IN [cols |-> [i \in DOMAIN rest |->
                  [rest[i] EXCEPT !.vals = [k \in DOMAIN order |-> rest[i].vals[order[k]]]]],
      idx |-> [k \in DOMAIN order |-> keys[order[k]]],
      tz |-> "UTC", freq |-> NoFreq]

CsvDerived == [dni |-> "unknown", dhi |-> "unknown"]

\* read_csv that keeps what it read in the cache
read_csv_cached(fs, file, tz_name) ==
  LET t == FirstTimeColumn(file.cols)
  IN IF t = 0 THEN CallResult("ValueError", 0, NoneDf, NoMeta, fs)
     ELSE LET parsed == [file.cols EXCEPT ![t].vals = ToDatetimeCoerce(@)]
              c == convert_to_canonical(SetIndexSorted(parsed, t))
              df == ensure_tz_aware(c.df, tz_name)
          IN CallResult("ok", 0, df,
                        SourceMeta("CSV Upload", [original_name |-> file.name],
                                   c.conversions, CsvDerived),
                        set_cached_df(fs, "csv", << <<"src", file.name>> >>, df))

read_csv(fs, file, tz_name) ==
  LET t == FirstTimeColumn(file.cols)
  IN IF t = 0 THEN CallResult("ValueError", 0, NoneDf, NoMeta, fs)
     ELSE LET parsed == [file.cols EXCEPT ![t].vals = ToDatetimeCoerce(@)]
              c == convert_to_canonical(SetIndexSorted(parsed, t))
              df == ensure_tz_aware(c.df, tz_name)
          IN CallResult("ok", 0, df,
                        SourceMeta("CSV Upload", [original_name |-> file.name],
                                   c.conversions, CsvDerived),
                        fs)

\* data.rename(columns={...}) of read_epw
EpwRename(name) == IF name = "atmospheric_pressure" THEN "pressure" ELSE name

EpwDerived == [dni |-> "measured", dhi |-> "measured"]

\* read_epw: iotools.read_epw raises on a file it cannot parse, or gives
\* (data, meta), data being indexed by the timestamps of the rows
read_epw(fs, file, tz_name) ==
  IF file.status = "error" THEN CallResult("error", 0, NoneDf, NoMeta, fs)
  ELSE LET data == [cols |-> [i \in DOMAIN file.cols |->
                                [file.cols[i] EXCEPT !.name = EpwRename(@)]],
                    idx |-> file.idx, tz |-> "UTC", freq |-> NoFreq]
           c == convert_to_canonical(ensure_tz_aware(ToDatetimeUtc(data), tz_name))
       IN CallResult("ok", 0, c.df,
                     SourceMeta("EPW Upload",
                                [original_name |-> file.name, epw_meta |-> file.meta],
                                c.conversions, EpwDerived),
                     fs)

-----------------------------------------------------------------------------
(* SpecUpload: read_csv and read_epw called on uploaded files, next to a   *)
(* cache directory that earlier fetches may have filled                    *)

\* the cells of a timestamp column: two instants and a cell that is no date
TimeCells == {0, 3600, Unparsable}

\* the column labels of the uploaded tables, in column order
CsvLayouts ==
  { <<"Date", "ghi">>, <<"ghi", "Timestamp">>, <<"Timestamp", "ghi", "Date">>,
    <<"ghi", "pressure">> }

\* the tables of n rows with the labels of a layout: the first timestamp
\* column holds any cells, a later one the rows' own instants, ghi 100, 200,
\* ... W/m^2 and pressure 98.4 kPa
CsvColumn(name, first, cells, n) ==
  [name |-> name,
   vals |-> IF name \in TimeNamed
            THEN IF first THEN cells ELSE [i \in 1..n |-> 7200 * i]
            ELSE IF name = "ghi" THEN [i \in 1..n |-> 100 * Milli * i]
            ELSE [i \in 1..n |-> 98400]]

CsvFiles ==
  { [name |-> "upload.csv", status |-> "ok",
     cols |-> [i \in DOMAIN layout |->
                 CsvColumn(layout[i], i = FirstTimeColumn([k \in DOMAIN layout |->
                                                             [name |-> layout[k]]]),
                           cells, Len(cells))]] :
      layout \in CsvLayouts, cells \in UNION {SeqsOf(TimeCells, n) : n \in 1..MaxRows} }

\* what iotools.read_epw makes of an uploaded file
EpwFiles ==
  { [name |-> "upload.epw", status |-> "error"],
    [name |-> "upload.epw", status |-> "ok", meta |-> "epw-meta",
     cols |-> << [name |-> "ghi", vals |-> <<420000, 0>>],
                 [name |-> "temp_air", vals |-> <<20000, 20000>>],
                 [name |-> "atmospheric_pressure", vals |-> <<101325000, 101325000>>] >>,
     idx |-> HourlyIdx] }

\* the cache directory before the uploads: empty, or holding an entry
CacheDirs ==
  {EmptyDir} \cup
  {set_cached_df(EmptyDir, "pvgis", PvgisKey("52.52", "13.405", "2019"), df) :
     df \in CacheFrames}

InitUpload ==
  /\ CanonIdle
  /\ files \in CacheDirs
  /\ last = NoCall
  /\ history = EmptyDir
  /\ ProcsIdle
  /\ SessionIdle

\* a finished call of a file adapter
Read(op, file, tz_name, r) ==
  /\ files' = r.files
  /\ last' = [op |-> op, file |-> file, tz |-> tz_name, outcome |-> r.outcome,
              net |-> r.net, df |-> r.df, meta |-> r.meta]
  /\ UNCHANGED <<cin, cstage, cout1, cout2, history, procs, session>>

ReadCsv ==
  \E file \in CsvFiles, tz_name \in Zones :
    Read("read_csv", file, tz_name, read_csv(files, file, tz_name))

ReadEpw ==
  \E file \in EpwFiles, tz_name \in Zones :
    Read("read_epw", file, tz_name, read_epw(files, file, tz_name))

NextUpload ==
  \/ ReadCsv
  \/ ReadEpw

SpecUpload == InitUpload /\ [][NextUpload]_vars

IsFileCall(call) == call.op \in {"read_csv", "read_epw"}

\* C12: read_csv on a table with no column whose name contains "time" or
\* "date" (in any case) fails with the format error and returns no dataset;
\* with such a column it does not raise that error and the first one in
\* column order becomes the time index: the index holds its parsed cells and
\* it is no longer a column.
C12_CsvNeedsTimestampColumn ==
  (IsFileCall(last) /\ last.op = "read_csv") =>
    LET cols == last.file.cols
        timed == {i \in DOMAIN cols : IsTimeName(cols[i].name)}
    IN IF timed = {}
       THEN last.outcome = "ValueError" /\ last.df = NoneDf
       ELSE LET t == CHOOSE i \in timed : \A k \in timed : i <= k
            IN /\ last.outcome = "ok"
               /\ Len(last.df.cols) = Len(cols) - 1
               /\ \A v \in Range(ToDatetimeCoerce(cols[t].vals)) :
                    Cardinality({k \in DOMAIN last.df.idx : last.df.idx[k] = v})
                      = Cardinality({k \in DOMAIN cols[t].vals :
                                       ToDatetimeCoerce(cols[t].vals)[k] = v})

C12_Witness ==
  /\ IsFileCall(last) /\ last.op = "read_csv" /\ last.outcome = "ok"
  /\ Cardinality({i \in DOMAIN last.file.cols : IsTimeName(last.file.cols[i].name)}) = 2

\* C13: file adapters are never cached: no call of read_epw or read_csv
\* creates, changes or removes a cache entry.
C13_FileAdaptersLeaveCacheAlone ==
  [][IsFileCall(last') => files' = files]_vars

C13_Witness ==
  /\ IsFileCall(last) /\ last.outcome = "ok"
  /\ files # EmptyDir

StrictlyIncreasing(idx) ==
  \A i \in 1..(Len(idx) - 1) :
    idx[i] # NaT /\ idx[i + 1] # NaT /\ idx[i] < idx[i + 1]

\* C14: the dataset every adapter returns has a timezone-aware index that is
\* strictly increasing, also for uploads whose timestamp column has duplicate
\* or unparsable cells.
C14_IndexAwareAndStrictlyIncreasing ==
  (IsFileCall(last) /\ last.outcome = "ok") =>
    /\ last.df.tz # "naive"
    /\ StrictlyIncreasing(last.df.idx)

-----------------------------------------------------------------------------
(* The conversion ledger of convert_to_canonical (SpecCanon) *)

\* the records the first pass wrote for the input column i
RecordsOf(i) ==
  {k \in DOMAIN cout1.conversions : cout1.conversions[k].col = cin.cols[i].name}

\* the first pass changed the values of the input column i
Rescaled(i) == cout1.df.cols[i].vals # cin.cols[i].vals

\* C15: the conversion ledger holds exactly the columns that were rescaled:
\* one record for every column whose values were multiplied, and no record
\* for a column whose values were left as they were (none with unit_from
\* equal to unit_to).
C15_LedgerIsExactlyTheRescaled ==
  Canonicalized =>
    /\ \A i \in DOMAIN cin.cols :
         IF Rescaled(i) THEN Cardinality(RecordsOf(i)) = 1 ELSE RecordsOf(i) = {}
    /\ \A k \in DOMAIN cout1.conversions :
         cout1.conversions[k].from # cout1.conversions[k].to

AllNull(vals) == \A k \in DOMAIN vals : vals[k] = NaN

\* C16: when unit inference abstains because a pressure or irradiance column
\* holds only nulls, the column is left unconverted and has no record in the
\* conversion ledger.
C16_AllNullColumnNotInLedger ==
  Canonicalized =>
    \A i \in DOMAIN cin.cols :
      (/\ guess_column(cin.cols[i].name) \in {"pressure"} \cup Range(IrradianceFields)
       /\ AllNull(cin.cols[i].vals))
      => (~Rescaled(i) /\ RecordsOf(i) = {})

-----------------------------------------------------------------------------
(* SpecUnits: unit inference of convert_to_canonical on one column, with   *)
(* series longer than the sampled prefix and means at the thresholds       *)

Repeat(x, n) == [i \in 1..n |-> x]

\* means of a pressure column: 50, 70, 98.4, 110, 700, 1013.25 and 1100
PressureHeads == {50000, 70000, 98400, 110000, 700000, 1013250, 1100000}

\* means of an irradiance column: 1.0, just below 5, 5
IrradHeads == {1000, 4999, 5000}

\* values past the head of a series: 98.4 and 2000
TailVals == {98400, 2000000}

\* lengths of the head of a series: one value, one less than the sampled
\* prefix, the sampled prefix
HeadLens == {1, SamplePrefix - 1, SamplePrefix}

\* leading nulls, a head of equal values, a tail of equal values
UnitSeries(heads) ==
  {Repeat(NaN, z) \o Repeat(a, h) \o Repeat(b, t) :
     z \in {0, 1}, a \in heads, h \in HeadLens, b \in TailVals, t \in 0..MaxRows}

\* an hourly frame of one column with a fixed frequency
HourlyFrame(name, v) ==
  [cols |-> <<[name |-> name, vals |-> v]>>,
   idx |-> [i \in DOMAIN v |-> HourSeconds * (i - 1)],
   tz |-> "UTC", freq |-> HourSeconds]

\* values of a short irradiance column
UnitIrradVals == {NaN, 1000, 4999, 5000, 800000}

IsUnitsInput(df) ==
  \/ \E name \in {"pressure", "PS"}, v \in UnitSeries(PressureHeads) :
       df = HourlyFrame(name, v)
  \/ \E name \in {"ghi", "Global_Horizontal_Irr"}, v \in UnitSeries(IrradHeads) :
       df = HourlyFrame(name, v)
  \/ \E name \in {"ghi", "dni", "dhi", "Global_Horizontal_Irr"}, n \in 1..MaxRows :
       \E v \in SeqsOf(UnitIrradVals, n), ix \in IndexChoices(n) :
         df = [cols |-> <<[name |-> name, vals |-> v]>>,
               idx |-> ix.idx, tz |-> "UTC", freq |-> ix.freq]

InitUnits ==
  /\ IsUnitsInput(cin)
  /\ cstage = "input"
  /\ cout1 = NoResult
  /\ cout2 = NoResult
  /\ CacheIdle
  /\ ProcsIdle
  /\ SessionIdle

SpecUnits == InitUnits /\ [][Canonicalize]_vars

\* the non-null values of a column, in row order
NonNull(vals) == SelectSeq(vals, LAMBDA x : x # NaN)

\* the first 500 values of v, or all of v when it has fewer
First500(v) == IF Len(v) <= 500 THEN v ELSE SubSeq(v, 1, 500)

\* lo < mean(v) < hi, in the units of the program
MeanWithin(v, lo, hi) ==
  v # <<>> /\ lo * Milli * Len(v) < SumSeq(v) /\ SumSeq(v) < hi * Milli * Len(v)

\* C17: for a pressure column (named pressure, ps, pres or sp) the unit is
\* inferred from the mean of at most the first 500 non-null values: a mean
\* strictly between 70 and 110 is kilopascal and the column is multiplied by
\* 1000, a mean strictly between 700 and 1100 is hectopascal and it is
\* multiplied by 100, any other mean (70, 110, 700 and 1100 included) leaves
\* the column as it is.
C17_PressureInferredFromFirst500 ==
  Canonicalized =>
    \A i \in DOMAIN cin.cols :
      IsPressureName(cin.cols[i].name) =>
        LET sample == First500(NonNull(cin.cols[i].vals))
            out == cout1.df.cols[i].vals
        IN IF MeanWithin(sample, 70, 110)
           THEN out = [k \in DOMAIN out |->
                         IF cin.cols[i].vals[k] = NaN THEN NaN
                         ELSE cin.cols[i].vals[k] * 1000]
           ELSE IF MeanWithin(sample, 700, 1100)
           THEN out = [k \in DOMAIN out |->
                         IF cin.cols[i].vals[k] = NaN THEN NaN
                         ELSE cin.cols[i].vals[k] * 100]
           ELSE out = cin.cols[i].vals

\* a pressure column of more than 500 values whose first 500 average 98.4
\* and whose later values are 2000, converted to pascal
C17_Witness ==
  /\ Canonicalized
  /\ Len(cin.cols) = 1 /\ IsPressureName(cin.cols[1].name)
  /\ Len(NonNull(cin.cols[1].vals)) > 500
  /\ NonNull(cin.cols[1].vals)[1] = 98400
  /\ NonNull(cin.cols[1].vals)[501] = 2000000
  /\ cout1.df.cols[1].vals[Len(cin.cols[1].vals)] = 2000000 * 1000

\* the sample interval of a frame: the fixed frequency of its index if it has
\* one, else the median of the differences of consecutive timestamps, else
\* 3600 for fewer than two points
SampleInterval(df) ==
  IF df.freq # NoFreq THEN df.freq
  ELSE IF Len(df.idx) < 2 THEN 3600
  ELSE MedianInt(Diffs(df.idx))

-----------------------------------------------------------------------------
(* SpecGuess: guess_column called while convert_to_canonical works on a    *)
(* frame                                                                   *)

\* the names guess_column is called with
GuessNames ==
  {"wind_speed", "Global_Horizontal_Irr", "randomXYZ", "Gd(h)"}

InitGuess ==
  /\ \E layout \in Layouts :
       \E c \in ColumnsOf(layout, 1) :
         cin = [cols |-> c, idx |-> <<0>>, tz |-> "UTC", freq |-> NoFreq]
  /\ cstage = "input"
  /\ cout1 = NoResult
  /\ cout2 = NoResult
  /\ CacheIdle
  /\ ProcsIdle
  /\ SessionIdle

\* a call of guess_column; history keeps the result of the first call with
\* each name
GuessColumn ==
  \E name \in GuessNames :
    LET g == guess_column(name)
    IN /\ last' = [op |-> "guess_column", name |-> name, result |-> g]
       /\ history' = IF name \in DOMAIN history THEN history
                     ELSE [k \in DOMAIN history \cup {name} |->
                             IF k = name THEN g ELSE history[k]]
       /\ UNCHANGED <<cin, cstage, cout1, cout2, files, procs, session>>

NextGuess ==
  \/ GuessColumn
  \/ Canonicalize
  \/ Recanonicalize

SpecGuess == InitGuess /\ [][NextGuess]_vars

\* the canonical fields in their declaration order
DeclaredOrder == <<"ghi", "dni", "dhi", "temp_air", "wind_speed", "pressure", "albedo">>

\* the candidates of a canonical field
CandidatesOf(field) ==
  UNION {Range(FUZZY[i].candidates) : i \in {j \in DOMAIN FUZZY : FUZZY[j].field = field}}

\* the first field, in the declaration order, one of whose candidates is a
\* substring of the lower-case alphanumerics of the name; none without one
FirstFieldOf(name) ==
  LET n == SelectSeq(Lower(Chars(name)),
                     LAMBDA c : c \in Range(LowerChars) \cup DigitChars)
      has == {q \in DOMAIN DeclaredOrder :
                \E c \in CandidatesOf(DeclaredOrder[q]) : Contains(n, c)}
  IN IF has = {} THEN NoField
     ELSE DeclaredOrder[CHOOSE q \in has : \A k \in has : q <= k]

\* C19: guess_column is a function of the name alone: it returns the first
\* canonical field, in the order ghi, dni, dhi, temp_air, wind_speed,
\* pressure, albedo, with a candidate contained in the normalized name, none
\* when there is no such field (as for "randomXYZ"), and a later call with
\* the same name returns what the first call returned, whatever the program
\* did in between.
C19_GuessColumnDeterministic ==
  /\ [](last.op = "guess_column" => last.result = FirstFieldOf(last.name))
  /\ [](last.op = "guess_column" /\ last.name = "randomXYZ" => last.result = NoField)
  /\ [][(last'.op = "guess_column" /\ last'.name \in DOMAIN history)
          => last'.result = history[last'.name]]_vars

\* "wind_speed" matches wind_speed ("wind") and pressure ("sp"): asked again
\* after the frame was converted twice, it is wind_speed as the first time
C19_Witness ==
  /\ last.op = "guess_column" /\ last.name = "wind_speed"
  /\ last.result = "wind_speed"
  /\ cstage = "twice"
  /\ DOMAIN history = GuessNames

-----------------------------------------------------------------------------
(* Time alignment of the query adapters (Spec) *)

\* C20: the dataset a query adapter returns is expressed in the time zone
\* asked for in that call, when it is fetched from the network and when it
\* is served from a cache entry written by an earlier call.
C20_ReturnedInRequestedZone ==
  (IsAdapterCall(last) /\ last.outcome \in {"hit", "miss"})
    => last.df.tz = last.tz

-----------------------------------------------------------------------------
(* SpecQuery: the three remote-API adapters of core/adapters.py, called one *)
(* after the other against one cache directory                              *)

\* fetch_pvgis_tmy: resp is what iotools.get_pvgis_tmy does, an exception or
\* (data, meta); the function neither reads nor writes the cache
fetch_pvgis_tmy(fs, lat, lon, tz_name, resp) ==
  IF resp.status = "error" THEN CallResult("error", 1, NoneDf, NoMeta, fs)
  ELSE LET df == [resp.data EXCEPT !.cols =
                    [i \in DOMAIN resp.data.cols |->
                       [resp.data.cols[i] EXCEPT
                          !.name = PvgisRename(resp.data.cols[i].name)]]]
           c == convert_to_canonical(ensure_tz_aware(ToDatetimeUtc(df), tz_name))
       IN CallResult("miss", 1, c.df,
                     SourceMeta("PVGIS TMY", [meta |-> resp.meta], c.conversions,
                                PvgisDerived),
                     fs)

\* responses of the PVGIS TMY service with map_variables=True: the columns
\* carry pvlib's names, pressure in pascal
TmyResponses ==
  { Failure,
    [status |-> "ok", meta |-> "tmy-meta",
     data |-> [cols |-> << [name |-> "ghi", vals |-> <<800000, 800000>>],
                           [name |-> "dni", vals |-> <<600000, 600000>>],
                           [name |-> "dhi", vals |-> <<200000, 200000>>],
                           [name |-> "pressure", vals |-> <<101325000, 101325000>>] >>,
               idx |-> HourlyIdx, tz |-> "UTC", freq |-> NoFreq]] }

\* the adapters called as main.py calls them, with the zone of the site
QueryPvgisHourly ==
  \E lat \in Lats, lon \in Lons, year \in Years, resp \in PvgisResponses :
    Called("pvgis", Ident("pvgis", lat, lon, <<year>>), tz_name_from_latlon(lat, lon),
           fetch_pvgis_hourly(files, lat, lon, year, tz_name_from_latlon(lat, lon), resp))

QueryPvgisTmy ==
  \E lat \in Lats, lon \in Lons, resp \in TmyResponses :
    Called("pvgis_tmy", Ident("pvgis_tmy", lat, lon, <<>>),
           tz_name_from_latlon(lat, lon),
           fetch_pvgis_tmy(files, lat, lon, tz_name_from_latlon(lat, lon), resp))

QueryNasaPowerHourly ==
  \E lat \in Lats, lon \in Lons, period \in Periods, resp \in NasaResponses :
    Called("nasa",
           Ident("nasa", lat, lon, <<Strftime(period[1]), Strftime(period[2])>>),
           tz_name_from_latlon(lat, lon),
           fetch_nasa_power_hourly(files, lat, lon, period[1], period[2],
                                   tz_name_from_latlon(lat, lon), resp))

NextQuery ==
  \/ QueryPvgisHourly
  \/ QueryPvgisTmy
  \/ QueryNasaPowerHourly
  \/ Restart

SpecQuery == Init /\ [][NextQuery]_vars

IsQueryCall(call) == call.op \in {"pvgis", "pvgis_tmy", "nasa"}

\* the cache directory holds a file with the frame df
InCache(fs, df) == \E p \in DOMAIN fs : ReadParquet(fs[p]) = Persisted(df)

\* C21: for each of fetch_pvgis_hourly, fetch_pvgis_tmy and
\* fetch_nasa_power_hourly, a call whose identifying parameters were fetched
\* successfully before makes no network request, and a call that fetched from
\* the network leaves its dataset in the cache when it returns.
C21_CacheBeforeNetworkAndPersisted ==
  [][IsQueryCall(last')
       => /\ (last'.id \in DOMAIN history => last'.net = 0)
          /\ (last'.outcome = "miss" => InCache(files', last'.df))]_vars

-----------------------------------------------------------------------------
(* SpecSteps: the wizard of main.py from Step 1 to Step 4, the weather      *)
(* coming from PVGIS TMY ("Fetch data") or from a CSV upload ("Apply        *)
(* mapping"). A series computed by pvlib is kept as the name of the model   *)
(* and its arguments, not as numbers.                                       *)

\* ds == "PVGIS TMY", the "Year" widget left at its value
FetchDataPvgisTmy ==
  \E lat \in Lats, lon \in Lons, resp \in TmyResponses :
    AfterFetch("PVGIS TMY", PVGIS_HOURLY_MAX_YEAR,
               fetch_pvgis_tmy(files, lat, lon, tz_name_from_latlon(lat, lon), resp))

\* the "<none>" option of the selectboxes of the mapping form
NoneSel == "<none>"

\* the column labels of the uploaded CSV files
StepLayouts ==
  { <<"Timestamp", "randomXYZ">>,
    <<"Timestamp", "direct", "diffuse">>,
    <<"Timestamp", "randomXYZ", "direct">> }

\* csv_raw = pd.read_csv(upload): three rows, the second with a cell that is
\* no date and the others out of order; the column randomXYZ holds 800 W/m^2
\* or nothing
StepCsvFiles ==
  { [name |-> "site.csv",
     cols |-> [i \in DOMAIN layout |->
                 [name |-> layout[i],
                  vals |-> CASE layout[i] = "Timestamp" -> <<3600, Unparsable, 0>>
                             [] layout[i] = "randomXYZ" -> <<g, g, g>>
                             [] layout[i] = "direct" -> <<600000, 600000, 600000>>
                             [] OTHER -> <<200000, 200000, 200000>>]]] :
      layout \in StepLayouts, g \in {800000, NaN} }

\* what the user can select in the form: "<none>" or a column of the file
Options(upload, name) ==
  {NoneSel} \cup {upload.cols[i].name : i \in {k \in DOMAIN upload.cols :
                                                 upload.cols[k].name = name}}

Selections(upload) ==
  { [dt_col |-> dt, ghi_col |-> g, dni_col |-> n, dhi_col |-> h,
     ta_col |-> NoneSel, ws_col |-> NoneSel, ps_col |-> NoneSel] :
      dt \in Options(upload, "Timestamp"), g \in Options(upload, "randomXYZ"),
      n \in Options(upload, "direct"), h \in Options(upload, "diffuse") }

\* df.dropna(subset=[dt_col]): the rows whose datetime is not NaT
DropNaT(cols, t) ==
  LET keep == [r \in DOMAIN cols[t].vals |-> cols[t].vals[r] # NaT]
  IN [i \in DOMAIN cols |-> [cols[i] EXCEPT !.vals = KeepRows(cols[i].vals, keep)]]

\* the rename dict of "Apply mapping": a column selected for two fields
\* keeps the entry written last
MappingRename(sel, name) ==
  CASE sel.ps_col # NoneSel /\ name = sel.ps_col -> "pressure"
    [] sel.ws_col # NoneSel /\ name = sel.ws_col -> "wind_speed"
    [] sel.ta_col # NoneSel /\ name = sel.ta_col -> "temp_air"
    [] sel.dhi_col # NoneSel /\ name = sel.dhi_col -> "dhi"
    [] sel.dni_col # NoneSel /\ name = sel.dni_col -> "dni"
    [] sel.ghi_col # NoneSel /\ name = sel.ghi_col -> "ghi"
    [] OTHER -> name

\* name in df.columns and not df[name].isna().all(), the labels of df distinct
HasData(df, name) ==
  \E i \in DOMAIN df.cols : df.cols[i].name = name /\ ~AllNull(df.cols[i].vals)

\* the "derived" entry of the source_meta of a mapped CSV
MappedDerived(df) ==
  [dni |-> IF "dni" \in Names(df) THEN "as provided" ELSE "derived later",
   dhi |-> IF "dhi" \in Names(df) THEN "as provided" ELSE "derived later"]

\* st.session_state after a press of "Apply mapping"
apply_mapping(ss, upload, sel, tz_name) ==
  IF sel.dt_col = NoneSel
  THEN [ss EXCEPT !.message = "error: Please select a datetime column."]
  ELSE LET t == CHOOSE i \in DOMAIN upload.cols : upload.cols[i].name = sel.dt_col
           parsed == [upload.cols EXCEPT ![t].vals = ToDatetimeCoerce(@)]
           indexed == SetIndexSorted(DropNaT(parsed, t), t)
           df == [indexed EXCEPT !.cols =
                    [i \in DOMAIN indexed.cols |->
                       [indexed.cols[i] EXCEPT
                          !.name = MappingRename(sel, indexed.cols[i].name)]]]
           has_ghi == HasData(df, "ghi")
           has_dn_dh == HasData(df, "dni") /\ HasData(df, "dhi")
       IN IF ~(has_ghi \/ has_dn_dh)
          THEN [ss EXCEPT !.message = "error: Please map at least GHI, or both DNI and DHI."]
          ELSE LET c == convert_to_canonical(df)
                   out == ensure_tz_aware(c.df, tz_name)
               IN [ss EXCEPT
                     !.raw_weather = out,
                     !.source_meta = SourceMeta("CSV Upload (mapped)",
                                                [original_name |-> upload.name],
                                                c.conversions, MappedDerived(out)),
                     !.derived_methods = EmptyDict,
                     !.message = "success: CSV mapped"]

ApplyMapping ==
  \E upload \in StepCsvFiles, lat \in Lats, lon \in Lons :
    \E sel \in Selections(upload) :
      /\ session' = apply_mapping(session, upload, sel, tz_name_from_latlon(lat, lon))
      /\ last' = [op |-> "apply_mapping"]
      /\ UNCHANGED <<cin, cstage, cout1, cout2, files, history, procs>>

\* cfg.__dict__ of Step 2, the widgets but "Irradiance model" left at their
\* values: tilt int(abs(52.52) - 10), AC rating 9 kW
SystemConfig(irrad_model) ==
  [layout |-> "fixed_tilt", tilt_deg |-> 42, azimuth_deg |-> 180,
   dc_kwp |-> 10 * Milli, ac_kw |-> 9 * Milli, ac_dc_ratio |-> "None",
   losses_pct |-> 12, transposition |-> irrad_model, albedo |-> 200]

\* a render of Step 2
SystemDefinition ==
  \E irrad_model \in {"haydavies", "perez"} :
    /\ session' = [session EXCEPT !.syscfg = SystemConfig(irrad_model),
                                  !.message = "none"]
    /\ last' = [op |-> "step2"]
    /\ UNCHANGED <<cin, cstage, cout1, cout2, files, history, procs>>

\* s.fillna(x)
FillNa(vals, x) == [i \in DOMAIN vals |-> IF vals[i] = NaN THEN x ELSE vals[i]]

\* "Ensure required met columns exist": a new column of x, or the gaps of
\* the column filled with x
WithDefault(df, name, x) ==
  IF name \notin Names(df)
  THEN [df EXCEPT !.cols = Append(df.cols, [name |-> name,
                                             vals |-> [r \in DOMAIN df.idx |-> x]])]
  ELSE [df EXCEPT !.cols =
          [i \in DOMAIN df.cols |->
             IF df.cols[i].name = name
             THEN [df.cols[i] EXCEPT !.vals = FillNa(df.cols[i].vals, x)]
             ELSE df.cols[i]]]

\* name not in out or out[name].isna().all()
NeedsDerivation(df, name) == ~HasData(df, name)

\* out[name] = series: the column is replaced, or added as the last one
SetColumn(df, col) ==
  IF col.name \in Names(df)
  THEN [df EXCEPT !.cols = [i \in DOMAIN df.cols |->
                              IF df.cols[i].name = col.name THEN col ELSE df.cols[i]]]
  ELSE [df EXCEPT !.cols = Append(df.cols, col)]

\* irradiance.dirint(ghi, zen, times) and irradiance.erbs(ghi, zen, times)["dhi"]
PvlibSeries(name, model, ghi) == [name |-> name, vals |-> ghi, model |-> model]

\* core/irradiance.py: out["ghi"] raises KeyError when there is no GHI
derive_from_ghi(df, lat, lon, tz_name) ==
  LET need == {q \in {"dni", "dhi"} : NeedsDerivation(df, q)}
  IN IF need # {} /\ "ghi" \notin Names(df)
     THEN [outcome |-> "KeyError", df |-> NoneDf, derived |-> EmptyDict]
     ELSE LET ghi == (CHOOSE c \in Range(df.cols) : c.name = "ghi").vals
              a == IF "dni" \in need
                   THEN SetColumn(df, PvlibSeries("dni", "dirint", FillNa(ghi, 0)))
                   ELSE df
              b == IF "dhi" \in need
                   THEN SetColumn(a, PvlibSeries("dhi", "erbs", FillNa(ghi, 0)))
                   ELSE a
          IN [outcome |-> "ok", df |-> IF need = {} THEN df ELSE b,
              derived |-> [q \in need |-> IF q = "dni" THEN "dirint" ELSE "erbs"]]

\* core/model.py: the check of the required columns, then the ModelChain;
\* its results are kept as the arguments they were computed from
run_pvwatts(weather, lat, lon, tz_name, cfg) ==
  LET required == {"ghi", "dni", "dhi", "temp_air", "wind_speed"}
      missing == required \ Names(weather)
      args == [weather |-> weather, lat |-> lat, lon |-> lon, tz |-> tz_name,
               cfg |-> cfg]
  IN IF missing # {}
     THEN [outcome |-> "ValueError", ac_w |-> NoRun, poa |-> NoRun, kpis |-> NoRun]
     ELSE [outcome |-> "ok", ac_w |-> args, poa |-> args, kpis |-> args]

\* the except clause of Step 3: st.error("Run error: ...")
RunFailed(ss, e) == [ss EXCEPT !.message = "error: Run error: " \o e]

\* the weather "Run simulation" hands to derive_from_ghi
MetWeather(raw_weather) ==
  WithDefault(WithDefault(raw_weather, "temp_air", 20 * Milli), "wind_speed", Milli)

\* st.session_state after a press of "Run simulation"
run_simulation(ss, lat, lon, tz_name) ==
  IF ss.raw_weather = NoneDf THEN RunFailed(ss, "'raw_weather'")
  ELSE LET weather == MetWeather(ss.raw_weather)
           need == NeedsDerivation(weather, "dni") \/ NeedsDerivation(weather, "dhi")
           d == derive_from_ghi(weather, lat, lon, tz_name)
       IN IF need /\ d.outcome # "ok" THEN RunFailed(ss, "'ghi'")
          ELSE LET derived == IF need THEN [ss EXCEPT !.derived_methods = d.derived]
                              ELSE ss
                   r == run_pvwatts(IF need THEN d.df ELSE weather, lat, lon, tz_name,
                                    ss.syscfg)
               IN IF ss.syscfg = NoCfg THEN RunFailed(derived, "'syscfg'")
                  ELSE IF r.outcome # "ok"
                  THEN RunFailed(derived, "Weather is missing required columns")
                  ELSE [derived EXCEPT !.ac_w = r.ac_w, !.poa = r.poa,
                                       !.kpis = r.kpis,
                                       !.message = "success: Simulation complete"]

RunSimulation ==
  \E lat \in Lats, lon \in Lons :
    /\ session' = run_simulation(session, lat, lon, tz_name_from_latlon(lat, lon))
    /\ last' = [op |-> "run_simulation"]
    /\ UNCHANGED <<cin, cstage, cout1, cout2, files, history, procs>>

\* "Build provenance info"
Provenance(ss) ==
  [weather_source |-> IF ss.source_meta = NoMeta THEN EmptyDict ELSE ss.source_meta,
   derived |-> ss.derived_methods,
   irradiance_model |-> IF ss.syscfg = NoCfg THEN "perez" ELSE ss.syscfg.transposition,
   temperature_model |-> "faiman (fixed)"]

\* a render of Step 4, with or without a press of "ZIP bundle": the
\* provenance shown, and with results in the session hourly.csv and
\* report.pdf written and, on the press, bundle.zip
Export ==
  \E zip \in BOOLEAN :
    LET prov == Provenance(session)
        config == IF session.syscfg = NoCfg THEN EmptyDict ELSE session.syscfg
        hourly == session.ac_w
        pdf == [prov |-> prov, syscfg |-> config, kpis |-> session.kpis,
                monthly |-> session.ac_w]
    IN /\ zip => session.ac_w # NoRun
       /\ last' = IF session.ac_w = NoRun
                  THEN [op |-> "step4", prov |-> prov, hourly |-> NoRun]
                  ELSE IF ~zip
                  THEN [op |-> "step4", prov |-> prov, hourly |-> hourly, pdf |-> pdf]
                  ELSE [op |-> "step4", prov |-> prov, hourly |-> hourly, pdf |-> pdf,
                        bundle |-> [hourly |-> hourly, report |-> pdf,
                                    provenance |-> prov, config |-> config]]
       /\ session' = [session EXCEPT !.message = "none"]
       /\ UNCHANGED <<cin, cstage, cout1, cout2, files, history, procs>>

NextSteps ==
  \/ FetchDataPvgisTmy
  \/ ApplyMapping
  \/ SystemDefinition
  \/ RunSimulation
  \/ Export

SpecSteps == Init /\ [][NextSteps]_vars

\* a render of Step 4
Step4Shown == last.op = "step4"

\* C22: the 'derived' entry of the provenance shown and exported in step 4
\* describes the weather dataset stored in the session: it names a derivation
\* method only for a column (dni, dhi) that this dataset lacks or holds
\* without values, so the methods recorded for an earlier dataset are gone
\* once a dataset with its own dni and dhi is fetched or simulated.
C22_DerivedDescribesStoredWeather ==
  Step4Shown
    => \A q \in DOMAIN last.prov.derived : NeedsDerivation(session.raw_weather, q)

\* what a run of the model on the session as it is would be computed from
RunArgs(ss, lat, lon) ==
  [weather |-> derive_from_ghi(MetWeather(ss.raw_weather), lat, lon,
                               tz_name_from_latlon(lat, lon)).df,
   lat |-> lat, lon |-> lon, tz |-> tz_name_from_latlon(lat, lon),
   cfg |-> ss.syscfg]

\* C23: the hourly AC series and the KPIs exported in step 4 were computed
\* from the weather dataset whose source metadata is exported with them and
\* from the system configuration exported with them, whatever fetches and
\* changes of the configuration came before the export.
C23_ExportedResultsMatchProvenance ==
  (Step4Shown /\ last.hourly # NoRun)
    => \E lat \in Lats, lon \in Lons :
         /\ last.hourly = RunArgs(session, lat, lon)
         /\ last.pdf.kpis = RunArgs(session, lat, lon)
         /\ last.pdf.syscfg = last.hourly.cfg

\* the dataset of the session was accepted by the requirement check of
\* "Apply mapping"
AcceptedCsv == session.source_meta.name = "CSV Upload (mapped)"

\* C24: "Run simulation" on a CSV dataset that "Apply mapping" accepted does
\* not fail for weather columns that run_pvwatts requires and are missing.
C24_AcceptedCsvHasRequiredColumns ==
  (AcceptedCsv /\ last.op = "run_simulation")
    => session.message # RunFailed(session, "Weather is missing required columns").message

=============================================================================
